---- MODULE Spec2Model ----
(***************************************************************************)
(* Model of the podcast generation router of AIKnowledgeStudio             *)
(* (src/App.tsx, createPodcastJob) and of the provider calls it awaits     *)
(* (src/services/geminiService.ts).                                        *)
(*                                                                         *)
(* JavaScript runs one invocation at a time between two awaits: `thread`   *)
(* names the invocation that is executing synchronous code, 0 when the     *)
(* event loop is idle.  Every setJobs call is one step, so the successive  *)
(* values of `jobs` are the successive states of the jobs map.             *)
(***************************************************************************)
EXTENDS Integers, Sequences, FiniteSets, TLC

\* ---------------------------------------------------------------- bounds
MaxCalls == 2          \* createPodcastJob invocations in one behaviour
MinSegs == 3           \* shortest outline the provider returns
MaxSegs == 6           \* longest outline the provider returns
RemoteLines == 2       \* transcript lines of one remote script chunk
MaxExtraChunks == 1    \* audio chunks an invocation may hold beyond its committed segments
MaxSources == 5        \* sources of the notebook given to retrieveTopK
MaxQueryWords == 2     \* words of the query given to retrieveTopK
SmallK == 2            \* a k below the number of sources
MaxChunkBytes == 3     \* bytes of one audio chunk
MaxChunks == 3         \* audio chunks of one assembly

\* ------------------------------------------------------- program constants
LocalSegs == 5         \* generateLocalOutline: five parts
InitialTotalChunks == 5
DefaultK == 8          \* retrieveTopK: k = 8
DefaultRetries == 5    \* withRetry: retries = 5
InitialDelay == 3000   \* withRetry: initialDelay = 3000
JitterBound == 1000    \* withRetry: Math.random() * 1000
\* progress is held in units of 1/6000
P_QUEUED == 300        \* 0.05
P_PREFLIGHT == 600     \* 0.1
P_OUTLINING == 900     \* 0.15
P_SCRIPT_BASE == 1200  \* 0.2
P_SYNTH_BASE == 1500   \* 0.25
P_BAND == 4200         \* 0.7
P_FINALIZING == 5700   \* 0.95
P_READY == 6000        \* 1.0
P_CATCH == 3000        \* 0.5

NotebookIds == {"nb1"}
MissingNotebookId == "nb0"
Personalities == {"neutral", "curious"}
ArtworkResults == {FALSE}   \* generateEpisodeArtwork: null
OutlineLengths == {MinSegs, MaxSegs}   \* lengths of the outlines the provider returns
Runs == 1..MaxCalls

NoId == 0
NoPersonality == "absent"
NoNotebook == "absent"

ModeRank(m) == CASE m = "PRIMARY" -> 0 [] m = "OPTIMIZED" -> 1 [] m = "FAILSAFE" -> 2

VARIABLES
  jobs,          \* Record<notebookId, PodcastJob>
  run,           \* the createPodcastJob invocations, by call number
  thread,        \* invocation executing synchronous code, 0 if none
  ncalls,        \* number of invocations so far
  now,           \* Date.now()
  notification,  \* the notification state of App
  generatedMedia,\* notebooks[n].generatedMedia, by notebook id
  rtk,           \* one call of retrieveTopK: arguments and return value
  asm,           \* one audio assembly: chunk list and merged result
  wr             \* one call of withRetry

vars == <<jobs, run, thread, ncalls, now, notification, generatedMedia, rtk, asm, wr>>

\* the state createPodcastJob neither reads nor writes
aux == <<generatedMedia, rtk, asm, wr>>

\* no call of retrieveTopK, no assembly, no call of withRetry
NoCall == [phase |-> "none"]

NoAudio == [present |-> FALSE, audio |-> <<>>, chapters |-> 0, transcript |-> <<>>, artworkUrl |-> FALSE]

\* the value `undefined` spread into an object: no own field at all
AbsentJob ==
  [jobId |-> NoId, notebookId |-> NoNotebook, state |-> "absent", progress |-> 0,
   mode |-> "absent", createdAt |-> NoId, personality |-> NoPersonality,
   completedChunks |-> 0, totalChunks |-> 0, hasPartial |-> FALSE,
   partialAudioBuffers |-> <<>>, partialTranscript |-> <<>>, audio |-> NoAudio]

IdleRun ==
  [pc |-> "idle", notebookId |-> NoNotebook, hasExisting |-> FALSE, existingJob |-> AbsentJob,
   isResume |-> FALSE, jobId |-> NoId, personality |-> NoPersonality,
   initialCompleted |-> 0, currentMode |-> "absent", outlineLen |-> 0,
   outlineSrc |-> "none", artwork |-> FALSE, i |-> 0, chunkResult |-> "none",
   audioChunks |-> <<>>, transcript |-> <<>>,
   firstReq |-> <<>>, minSeg |-> -1, remoteFailed |-> "none", failedSeg |-> -1]

\* ------------------------------------------------------------ pure helpers

\* generateLocalScriptChunk: number of lines of templates[partIndex % 5]
LocalTemplateLines(partIndex) ==
  CASE partIndex % 5 = 0 -> 3
    [] partIndex % 5 = 1 -> 4
    [] partIndex % 5 = 2 -> 4
    [] partIndex % 5 = 3 -> 3
    [] partIndex % 5 = 4 -> 4

\* transcript lines of the chunk result for segment i
ChunkTranscript(kind, i) ==
  CASE kind = "local" -> [k \in 1..LocalTemplateLines(i) |-> <<"local", i, k>>]
    [] kind = "remote" -> [k \in 1..RemoteLines |-> <<"remote", i, k>>]
    [] OTHER -> <<>>

\* 0.2 + (i * (0.7 / outline.outline.length))
ScriptProgress(i, len) == P_SCRIPT_BASE + i * (P_BAND \div len)

\* 0.25 + (i * (0.7 / outline.outline.length))
SynthProgress(i, len) == P_SYNTH_BASE + i * (P_BAND \div len)

\* const safeState = (state === 'FAILED') ? 'OPTIMIZING' : state
SafeStateSwapped(state) == IF state = "OPTIMIZING" THEN "FAILED" ELSE state
SafeState(state) == IF state = "FAILED" THEN "OPTIMIZING" ELSE state

\* decode every chunk, concatenate in list order, encode
RECURSIVE MergeAudio(_)
MergeAudio(chunks) ==
  IF chunks = <<>> THEN <<>> ELSE Head(chunks) \o MergeAudio(Tail(chunks))

\* the bytes generateTTSChunk returns to invocation r for segment i
TTSAudio(r, i) == <<r, i>>

HasJob(nb) == nb \in DOMAIN jobs

\* setJobs(prev => ({ ...prev, [notebookId]: job }))
PutJob(nb, job) == [n \in (DOMAIN jobs) \cup {nb} |-> IF n = nb THEN job ELSE jobs[n]]

\* setJobState(state, progress): { ...prev[notebookId], state: safeState, progress, mode: currentMode }
SetJobState(nb, state, progress, mode) ==
  PutJob(nb, [jobs[nb] EXCEPT !.state = SafeState(state), !.progress = progress, !.mode = mode])

\* the loop test i < outline.outline.length, taken when the loop is (re-)entered
LoopOrFinalize(i, len) == IF i < len THEN "loop" ELSE "finalize"

\* const startIndex = initialJob.completedChunks
StartIndexZero(initialJob) == 0
StartIndex(initialJob) == initialJob.completedChunks

\* ----------------------------------------------------------------- Init
\* the state of App after mounting
AppInit ==
  /\ jobs = [n \in {} |-> AbsentJob]
  /\ run = [r \in Runs |-> IdleRun]
  /\ thread = 0
  /\ ncalls = 0
  /\ now = 0
  /\ notification = NoNotebook
  /\ generatedMedia = [n \in NotebookIds |-> <<>>]

Init ==
  /\ AppInit
  /\ rtk = NoCall
  /\ asm = NoCall
  /\ wr = NoCall

\* -------------------------------------------------------------- actions

\* createPodcastJob with a notebookId that is not in notebooks: returns at once
CallMissing(r) ==
  /\ thread = 0
  /\ r = ncalls + 1
  /\ run[r].pc = "idle"
  /\ ncalls' = ncalls + 1
  /\ now' = now + 1
  /\ run' = [run EXCEPT ![r] = [IdleRun EXCEPT !.pc = "returned", !.notebookId = MissingNotebookId]]
  /\ UNCHANGED <<jobs, thread, notification, aux>>

\* createPodcastJob up to and including setJobs(initialJob)
Call(r, nb, personality) ==
  /\ thread = 0
  /\ r = ncalls + 1
  /\ run[r].pc = "idle"
  /\ ncalls' = ncalls + 1
  /\ now' = now + 1
  /\ LET hasExisting == HasJob(nb)
         existingJob == IF hasExisting THEN jobs[nb] ELSE AbsentJob
         isResume == hasExisting /\ existingJob.state \in {"QUOTA_PAUSED", "OPTIMIZING"}
         jobId == IF isResume THEN existingJob.jobId ELSE now'
         initialJob ==
           [jobId |-> jobId,
            notebookId |-> nb,
            state |-> "QUEUED",
            progress |-> IF isResume THEN existingJob.progress ELSE P_QUEUED,
            mode |-> IF hasExisting THEN existingJob.mode ELSE "PRIMARY",
            createdAt |-> IF hasExisting /\ existingJob.createdAt # NoId
                          THEN existingJob.createdAt ELSE now',
            personality |-> personality,
            completedChunks |-> existingJob.completedChunks,
            totalChunks |-> InitialTotalChunks,
            hasPartial |-> TRUE,
            partialAudioBuffers |-> existingJob.partialAudioBuffers,
            partialTranscript |-> existingJob.partialTranscript,
            audio |-> NoAudio]
     IN /\ jobs' = PutJob(nb, initialJob)
        /\ run' = [run EXCEPT ![r] =
              [IdleRun EXCEPT !.pc = "preflight", !.notebookId = nb,
                              !.hasExisting = hasExisting, !.existingJob = existingJob,
                              !.isResume = isResume, !.jobId = jobId,
                              !.personality = personality,
                              !.initialCompleted = initialJob.completedChunks,
                              !.currentMode = initialJob.mode,
                              !.i = StartIndex(initialJob),
                              !.audioChunks = initialJob.partialAudioBuffers,
                              !.transcript = initialJob.partialTranscript]]
  /\ thread' = r
  /\ UNCHANGED <<notification, aux>>

\* setJobState('PREFLIGHT', 0.1); a checkpoint with chunks takes the local outline
Preflight(r) ==
  /\ thread = r
  /\ run[r].pc = "preflight"
  /\ jobs' = SetJobState(run[r].notebookId, "PREFLIGHT", P_PREFLIGHT, run[r].currentMode)
  /\ IF run[r].initialCompleted = 0
     THEN run' = [run EXCEPT ![r].pc = "outlining"]
     ELSE run' = [run EXCEPT ![r].outlineLen = LocalSegs, ![r].outlineSrc = "local",
                             ![r].pc = LoopOrFinalize(run[r].i, LocalSegs)]
  /\ UNCHANGED <<thread, ncalls, now, notification, aux>>

\* setJobState('OUTLINING', 0.15), then the remote request or the local outline
Outlining(r) ==
  /\ thread = r
  /\ run[r].pc = "outlining"
  /\ jobs' = SetJobState(run[r].notebookId, "OUTLINING", P_OUTLINING, run[r].currentMode)
  /\ IF run[r].currentMode = "PRIMARY"
     THEN /\ run' = [run EXCEPT ![r].pc = "await_outline"]
          /\ thread' = 0
     ELSE /\ run' = [run EXCEPT ![r].outlineLen = LocalSegs, ![r].outlineSrc = "local",
                                ![r].pc = LoopOrFinalize(run[r].i, LocalSegs)]
          /\ UNCHANGED thread
  /\ UNCHANGED <<ncalls, now, notification, aux>>

\* Promise.all([generateOutline, generateEpisodeArtwork]) rejects
OutlineRejected(r) ==
  /\ thread = 0
  /\ run[r].pc = "await_outline"
  /\ run' = [run EXCEPT ![r].currentMode = "OPTIMIZED",
                         ![r].remoteFailed = "outline",
                         ![r].outlineLen = LocalSegs, ![r].outlineSrc = "local",
                         ![r].pc = LoopOrFinalize(run[r].i, LocalSegs)]
  /\ thread' = r
  /\ UNCHANGED <<jobs, ncalls, now, notification, aux>>

\* generateEpisodeArtwork rejects (notebook.visualFingerprint.bgColor is read outside
\* its try, on a notebook without visualFingerprint): Promise.all rejects whatever
\* generateOutline returns, and the outlining catch runs
ArtworkRejected(r) ==
  /\ thread = 0
  /\ run[r].pc = "await_outline"
  /\ run' = [run EXCEPT ![r].currentMode = "OPTIMIZED",
                         ![r].remoteFailed = "artwork",
                         ![r].outlineLen = LocalSegs, ![r].outlineSrc = "local",
                         ![r].pc = LoopOrFinalize(run[r].i, LocalSegs)]
  /\ thread' = r
  /\ UNCHANGED <<jobs, ncalls, now, notification, aux>>

\* Promise.all resolves with an outline of len segments and the artwork
OutlineResolved(r, len, art) ==
  /\ thread = 0
  /\ run[r].pc = "await_outline"
  /\ run' = [run EXCEPT ![r].outlineLen = len, ![r].outlineSrc = "remote",
                         ![r].artwork = art,
                         ![r].pc = LoopOrFinalize(run[r].i, len)]
  /\ thread' = r
  /\ UNCHANGED <<jobs, ncalls, now, notification, aux>>

\* Promise.all resolves with JSON that has no outline list: outline.outline.map throws
OutlineMalformed(r, art) ==
  /\ thread = 0
  /\ run[r].pc = "await_outline"
  /\ run' = [run EXCEPT ![r].outlineSrc = "malformed", ![r].artwork = art, ![r].pc = "catch"]
  /\ thread' = r
  /\ UNCHANGED <<jobs, ncalls, now, notification, aux>>

\* a call of generateScriptChunk / generateLocalScriptChunk ("script") or of
\* generateTTSChunk ("tts") for segment seg: the first one and the lowest segment are kept
Requested(rec, kind, seg) ==
  [rec EXCEPT !.firstReq = IF @ = <<>> THEN <<kind, seg>> ELSE @,
              !.minSeg = IF @ = -1 \/ seg < @ THEN seg ELSE @]

\* top of one loop iteration: setJobState('SCRIPTING', ...) and the script request
LoopBody(r) ==
  LET rec == run[r]
      nb == rec.notebookId
  IN /\ jobs' = SetJobState(nb, "SCRIPTING", ScriptProgress(rec.i, rec.outlineLen), rec.currentMode)
     /\ IF rec.currentMode = "PRIMARY"
        THEN /\ run' = [run EXCEPT ![r] =
                   [Requested(rec, "script", rec.i) EXCEPT !.pc = "await_script"]]
             /\ thread' = 0
        ELSE /\ run' = [run EXCEPT ![r] =
                   [Requested(rec, "script", rec.i) EXCEPT
                      !.chunkResult = "local", !.pc = "synth"]]
             /\ thread' = r
     /\ UNCHANGED <<ncalls, now, notification, aux>>

\* for (let i = startIndex; i < outline.outline.length; i++) { setJobState('SCRIPTING' ...
Loop(r) ==
  /\ thread = r
  /\ run[r].pc = "loop"
  /\ LoopBody(r)

\* await generateScriptChunk(...) resolves with a script and a transcript
ScriptResolved(r) ==
  /\ thread = 0
  /\ run[r].pc = "await_script"
  /\ run' = [run EXCEPT ![r].chunkResult = "remote", ![r].pc = "synth"]
  /\ thread' = r
  /\ UNCHANGED <<jobs, ncalls, now, notification, aux>>

\* await generateScriptChunk(...) resolves with JSON that has no script field
ScriptMalformed(r) ==
  /\ thread = 0
  /\ run[r].pc = "await_script"
  /\ run' = [run EXCEPT ![r].chunkResult = "noscript", ![r].pc = "synth"]
  /\ thread' = r
  /\ UNCHANGED <<jobs, ncalls, now, notification, aux>>

\* await generateScriptChunk(...) resolves with JSON whose transcript is not iterable
\* (a number or an object): the script is usable, the spread of the transcript is not
ScriptBadTranscript(r) ==
  /\ thread = 0
  /\ run[r].pc = "await_script"
  /\ Len(run[r].audioChunks) - run[r].i < MaxExtraChunks
  /\ run' = [run EXCEPT ![r].chunkResult = "badtranscript", ![r].pc = "synth"]
  /\ thread' = r
  /\ UNCHANGED <<jobs, ncalls, now, notification, aux>>

\* ScriptRejected without currentMode = 'OPTIMIZED': the local script for this segment only
ScriptRejectedKeepsMode(r) ==
  /\ thread = 0
  /\ run[r].pc = "await_script"
  /\ run' = [run EXCEPT ![r] =
        [run[r] EXCEPT !.chunkResult = "local", !.pc = "synth",
                       !.remoteFailed = "script", !.failedSeg = run[r].i]]
  /\ thread' = r
  /\ UNCHANGED <<jobs, ncalls, now, notification, aux>>

\* await generateScriptChunk(...) rejects: downgrade and local script
ScriptRejected(r) ==
  /\ thread = 0
  /\ run[r].pc = "await_script"
  /\ run' = [run EXCEPT ![r] =
        [run[r] EXCEPT !.currentMode = "OPTIMIZED", !.chunkResult = "local", !.pc = "synth",
                       !.remoteFailed = "script", !.failedSeg = run[r].i]]
  /\ thread' = r
  /\ UNCHANGED <<jobs, ncalls, now, notification, aux>>

\* setJobState('SYNTHESIZING', ...) and the call of generateTTSChunk(chunkResult.script);
\* with no script the call throws before any request leaves
Synth(r) ==
  /\ thread = r
  /\ run[r].pc = "synth"
  /\ jobs' = SetJobState(run[r].notebookId, "SYNTHESIZING",
                         SynthProgress(run[r].i, run[r].outlineLen), run[r].currentMode)
  /\ IF run[r].chunkResult = "noscript"
     THEN /\ run' = [run EXCEPT ![r] =
                [Requested(run[r], "tts", run[r].i) EXCEPT !.pc = "tts_failed"]]
          /\ thread' = r
     ELSE /\ run' = [run EXCEPT ![r] =
                [Requested(run[r], "tts", run[r].i) EXCEPT !.pc = "await_tts"]]
          /\ thread' = 0
  /\ UNCHANGED <<ncalls, now, notification, aux>>

\* the chunk commit: completedChunks: i + 1, partialAudioBuffers, partialTranscript
CommitChunk(job, i, audioChunks, transcript) ==
  [job EXCEPT !.completedChunks = i + 1, !.hasPartial = TRUE,
              !.partialAudioBuffers = audioChunks, !.partialTranscript = transcript]

\* await generateTTSChunk resolves: push, commit, next iteration
TTSResolved(r) ==
  /\ thread = 0
  /\ run[r].pc = "await_tts"
  /\ run[r].chunkResult # "badtranscript"
  /\ LET rec == run[r]
         audioChunks == Append(rec.audioChunks, TTSAudio(r, rec.i))
         transcript == rec.transcript \o ChunkTranscript(rec.chunkResult, rec.i)
     IN /\ jobs' = PutJob(rec.notebookId,
                          CommitChunk(jobs[rec.notebookId], rec.i, audioChunks, transcript))
        /\ run' = [run EXCEPT ![r].audioChunks = audioChunks,
                               ![r].transcript = transcript,
                               ![r].i = rec.i + 1,
                               ![r].pc = LoopOrFinalize(rec.i + 1, rec.outlineLen)]
  /\ thread' = r
  /\ UNCHANGED <<ncalls, now, notification, aux>>

\* a synthesis catch that also downgrades the invocation
SynthCatchDowngrades(r) ==
  /\ jobs' = SetJobState(run[r].notebookId, "OPTIMIZING",
                         SynthProgress(run[r].i, run[r].outlineLen), "OPTIMIZED")
  /\ run' = [run EXCEPT ![r].pc = "backoff", ![r].currentMode = "OPTIMIZED"]
  /\ thread' = 0
  /\ UNCHANGED <<ncalls, now, notification, aux>>

\* the synthesis catch: setJobState('OPTIMIZING', ...), then the 5 s timer
SynthCatch(r) ==
  /\ jobs' = SetJobState(run[r].notebookId, "OPTIMIZING",
                         SynthProgress(run[r].i, run[r].outlineLen), run[r].currentMode)
  /\ run' = [run EXCEPT ![r].pc = "backoff"]
  /\ thread' = 0
  /\ UNCHANGED <<ncalls, now, notification, aux>>

\* await generateTTSChunk resolves, audioChunks.push(audioBase64), and then
\* transcript.push(...chunkResult.transcript) throws: the synthesis catch runs with the
\* audio already pushed
TTSResolvedSpreadThrows(r) ==
  /\ thread = 0
  /\ run[r].pc = "await_tts"
  /\ run[r].chunkResult = "badtranscript"
  /\ jobs' = SetJobState(run[r].notebookId, "OPTIMIZING",
                         SynthProgress(run[r].i, run[r].outlineLen), run[r].currentMode)
  /\ run' = [run EXCEPT ![r].audioChunks = Append(run[r].audioChunks, TTSAudio(r, run[r].i)),
                         ![r].pc = "backoff"]
  /\ thread' = 0
  /\ UNCHANGED <<ncalls, now, notification, aux>>

\* await generateTTSChunk rejects
TTSRejected(r) ==
  /\ thread = 0
  /\ run[r].pc = "await_tts"
  /\ SynthCatch(r)

\* generateTTSChunk(undefined) has thrown
TTSThrown(r) ==
  /\ thread = r
  /\ run[r].pc = "tts_failed"
  /\ SynthCatch(r)

\* the timer fires: i--, continue, i++, and the same iteration starts again
BackoffElapsed(r) ==
  /\ thread = 0
  /\ run[r].pc = "backoff"
  /\ LoopBody(r)

\* setJobState('FINALIZING', 0.95)
Finalize(r) ==
  /\ thread = r
  /\ run[r].pc = "finalize"
  /\ jobs' = SetJobState(run[r].notebookId, "FINALIZING", P_FINALIZING, run[r].currentMode)
  /\ run' = [run EXCEPT ![r].pc = "final"]
  /\ UNCHANGED <<thread, ncalls, now, notification, aux>>

\* finalJob = { ...jobs[notebookId], state: 'READY', ... } with the jobs of the call's closure
FinalJob(rec) ==
  [rec.existingJob EXCEPT
     !.state = "READY",
     !.progress = P_READY,
     !.mode = rec.currentMode,
     !.audio = [present |-> TRUE, audio |-> MergeAudio(rec.audioChunks),
                chapters |-> rec.outlineLen, transcript |-> rec.transcript,
                artworkUrl |-> rec.artwork],
     !.completedChunks = rec.outlineLen,
     !.totalChunks = rec.outlineLen]

\* setJobs(prev => ({ ...prev, [notebookId]: finalJob })); setNotification(...)
Final(r) ==
  /\ thread = r
  /\ run[r].pc = "final"
  /\ jobs' = PutJob(run[r].notebookId, FinalJob(run[r]))
  /\ notification' = run[r].notebookId
  /\ run' = [run EXCEPT ![r].pc = "done"]
  /\ thread' = 0
  /\ UNCHANGED <<ncalls, now, aux>>

\* the outer catch: setJobState('OPTIMIZING', 0.5, { error: undefined })
OuterCatch(r) ==
  /\ thread = r
  /\ run[r].pc = "catch"
  /\ jobs' = SetJobState(run[r].notebookId, "OPTIMIZING", P_CATCH, run[r].currentMode)
  /\ run' = [run EXCEPT ![r].pc = "done"]
  /\ thread' = 0
  /\ UNCHANGED <<ncalls, now, notification, aux>>

\* every step of invocation r after the call itself
Step(r) ==
  \/ Preflight(r)
  \/ Outlining(r)
  \/ OutlineRejected(r)
  \/ \E len \in OutlineLengths, art \in ArtworkResults : OutlineResolved(r, len, art)
  \/ \E art \in ArtworkResults : OutlineMalformed(r, art)
  \/ Loop(r)
  \/ ScriptResolved(r)
  \/ ScriptMalformed(r)
  \/ ScriptRejected(r)
  \/ Synth(r)
  \/ TTSResolved(r)
  \/ TTSRejected(r)
  \/ TTSThrown(r)
  \/ BackoffElapsed(r)
  \/ Finalize(r)
  \/ Final(r)
  \/ OuterCatch(r)

\* the steps of invocation r around a script response whose transcript cannot be spread
BadTranscriptStep(r) ==
  \/ ScriptBadTranscript(r)
  \/ TTSResolvedSpreadThrows(r)

\* interleaved invocations, with script responses whose transcript can be spread
Next ==
  \/ \E r \in Runs : CallMissing(r)
  \/ \E r \in Runs, nb \in NotebookIds, p \in Personalities : Call(r, nb, p)
  \/ \E r \in Runs : Step(r)

Spec == Init /\ [][Next]_vars

\* AudioStudio: isGenerating (activeEngine is never set by App, so it is !== null)
IsGenerating(nb) ==
  /\ HasJob(nb)
  /\ jobs[nb].state \in {"QUEUED", "PREFLIGHT", "OUTLINING", "SCRIPTING", "SYNTHESIZING", "FINALIZING"}

\* AudioStudio, the Narrative Strategy button: READY opens the player, otherwise
\* onStartJob(personality) unless isGenerating
StudioStartJob(r, nb, personality) ==
  /\ ~(HasJob(nb) /\ jobs[nb].state = "READY")
  /\ ~IsGenerating(nb)
  /\ Call(r, nb, personality)

\* createPodcastJob reached only through the AudioStudio button
StudioNext ==
  \/ \E r \in Runs, nb \in NotebookIds, p \in Personalities : StudioStartJob(r, nb, p)
  \/ \E r \in Runs : Step(r)

StudioSpec == Init /\ [][StudioNext]_vars

\* no invocation is between its call and its return
NoneRunning == \A r \in Runs : run[r].pc \in {"idle", "returned", "done"}

\* createPodcastJob called only after the previous invocation has returned
SequentialNext ==
  \/ \E r \in Runs, nb \in NotebookIds, p \in Personalities : NoneRunning /\ Call(r, nb, p)
  \/ \E r \in Runs : Step(r)
  \/ \E r \in Runs : BadTranscriptStep(r)
  \/ \E r \in Runs : ArtworkRejected(r)

SequentialSpec == Init /\ [][SequentialNext]_vars

\* one invocation on its own, with the event loop running it
OneCallNext ==
  \/ \E nb \in NotebookIds, p \in Personalities : Call(1, nb, p)
  \/ Step(1)
  \/ BadTranscriptStep(1)
  \/ ArtworkRejected(1)

OneCallFairSpec == Init /\ [][OneCallNext]_vars /\ WF_vars(Step(1))

\* the steps of invocation r that the JavaScript runtime takes by itself: synchronous
\* code and the 5 s timer; every other step is a response of the provider
ProgramStep(r) ==
  \/ Preflight(r)
  \/ Outlining(r)
  \/ Loop(r)
  \/ Synth(r)
  \/ TTSThrown(r)
  \/ BackoffElapsed(r)
  \/ Finalize(r)
  \/ Final(r)
  \/ OuterCatch(r)

\* one invocation with a provider that may never respond
OneCallHangSpec == Init /\ [][OneCallNext]_vars /\ WF_vars(ProgramStep(1))

\* ------------------------------------------------------------- retrieveTopK
\* A source content is modelled by the set of lowercase terms it contains, a query by
\* the list of its whitespace-separated words.

\* the words a query is made of; "ai" has two characters, the others three
QueryWords == {"ai", "DEX", "dex", "npu"}

\* the terms content.toLowerCase() may contain
ContentTerms == {"dex", "npu"}

\* String.prototype.toLowerCase on the words of QueryWords
ToLowerCase(w) == IF w = "DEX" THEN "dex" ELSE w

\* t.length
WordLength(w) == IF w = "ai" THEN 2 ELSE 3

Min(a, b) == IF a < b THEN a ELSE b

\* query.toLowerCase().split(/\s+/).filter(t => t.length > 2)
QueryTerms(query) ==
  SelectSeq([i \in 1..Len(query) |-> ToLowerCase(query[i])], LAMBDA t : WordLength(t) > 2)

\* queryTerms.reduce((acc, term) => acc + (content.includes(term) ? 1 : 0), 0)
Score(content, terms) == Cardinality({i \in 1..Len(terms) : terms[i] \in content})

\* notebook.sources.map(source => ({ source, score })), a source named by its position
ScoredSources(sources, terms) ==
  [i \in 1..Len(sources) |-> [source |-> i, score |-> Score(sources[i], terms)]]

\* e, which stood before every element of sorted, goes after the elements that compare
\* lower or equal: ties end up in reverse of the original order
InsertByScoreAfterTies(e, sorted) ==
  LET before == {j \in 1..Len(sorted) : sorted[j].score >= e.score}
  IN SubSeq(sorted, 1, Cardinality(before)) \o <<e>>
       \o SubSeq(sorted, Cardinality(before) + 1, Len(sorted))

\* e, which stood before every element of sorted, goes before the first element whose
\* score is not higher: Array.prototype.sort is stable
InsertByScore(e, sorted) ==
  LET before == {j \in 1..Len(sorted) : sorted[j].score > e.score}
  IN SubSeq(sorted, 1, Cardinality(before)) \o <<e>>
       \o SubSeq(sorted, Cardinality(before) + 1, Len(sorted))

\* .sort((a, b) => b.score - a.score)
RECURSIVE SortByScore(_)
SortByScore(scored) ==
  IF scored = <<>> THEN <<>> ELSE InsertByScore(Head(scored), SortByScore(Tail(scored)))

\* the blocks `SOURCE ${i + 1} (${title}):\n${content}` of the listed sources
SourceBlocks(sourceIds) ==
  [kind |-> "sources",
   blocks |-> [i \in 1..Len(sourceIds) |-> [number |-> i, source |-> sourceIds[i]]]]

\* "No directly relevant sources were found. ..."
NeutralInstruction == [kind |-> "neutral", blocks |-> <<>>]

RetrieveTopK(sources, query, k) ==
  LET terms == QueryTerms(query)
      n == Len(sources)
      scored == ScoredSources(sources, terms)
      kept == SelectSeq(scored, LAMBDA s : s.score > 0 \/ n <= 2)
      sorted == SortByScore(kept)
      topK == SubSeq(sorted, 1, Min(k, Len(sorted)))
  IN IF Len(topK) = 0
     THEN IF n > 0
          THEN SourceBlocks([i \in 1..Min(3, n) |-> i])
          ELSE NeutralInstruction
     ELSE SourceBlocks([i \in 1..Len(topK) |-> topK[i].source])

SourceLists == UNION {[1..n -> SUBSET ContentTerms] : n \in 0..MaxSources}
Queries == UNION {[1..n -> QueryWords] : n \in 0..MaxQueryWords}
TopKs == {SmallK, DefaultK}

RetrieveInit ==
  /\ AppInit
  /\ rtk \in {[phase |-> "call", sources |-> s, query |-> q, k |-> k] :
                s \in SourceLists, q \in Queries, k \in TopKs}
  /\ asm = NoCall
  /\ wr = NoCall

\* retrieveTopK(notebook, query, k) returns
RetrieveTopKReturns ==
  /\ rtk.phase = "call"
  /\ rtk' = [phase |-> "done", sources |-> rtk.sources, query |-> rtk.query, k |-> rtk.k,
              result |-> RetrieveTopK(rtk.sources, rtk.query, rtk.k)]
  /\ UNCHANGED <<jobs, run, thread, ncalls, now, notification, generatedMedia, asm, wr>>

RetrieveNext == RetrieveTopKReturns

RetrieveSpec == RetrieveInit /\ [][RetrieveNext]_vars

\* ----------------------------------------------------------- audio assembly
\* A base64 string is the sequence of its characters, a character being its 6-bit
\* value 0..63 or PadChar for "="; a byte is 0..255.

PadChar == 64

ByteValues == {0, 77, 255}

\* btoa on the binary string of bytes (String.fromCharCode(bytes[i]) keeps the value)
RECURSIVE Encode(_)
Encode(bytes) ==
  IF Len(bytes) = 0 THEN <<>>
  ELSE IF Len(bytes) = 1
    THEN <<bytes[1] \div 4, (bytes[1] % 4) * 16, PadChar, PadChar>>
  ELSE IF Len(bytes) = 2
    THEN <<bytes[1] \div 4, (bytes[1] % 4) * 16 + bytes[2] \div 16,
           (bytes[2] % 16) * 4, PadChar>>
  ELSE <<bytes[1] \div 4, (bytes[1] % 4) * 16 + bytes[2] \div 16,
         (bytes[2] % 16) * 4 + bytes[3] \div 64, bytes[3] % 64>>
         \o Encode(SubSeq(bytes, 4, Len(bytes)))

\* atob, first step: the trailing "=" signs are removed
StripPadding(base64) == SelectSeq(base64, LAMBDA c : c # PadChar)

\* atob, second step: every 4 characters give 3 bytes, 2 or 3 remaining ones 1 or 2
RECURSIVE DecodeCharacters(_)
DecodeCharacters(d) ==
  IF Len(d) < 2 THEN <<>>
  ELSE IF Len(d) = 2 THEN <<d[1] * 4 + d[2] \div 16>>
  ELSE IF Len(d) = 3
    THEN <<d[1] * 4 + d[2] \div 16, (d[2] % 16) * 16 + d[3] \div 4>>
  ELSE <<d[1] * 4 + d[2] \div 16, (d[2] % 16) * 16 + d[3] \div 4, (d[3] % 4) * 64 + d[4]>>
         \o DecodeCharacters(SubSeq(d, 5, Len(d)))

\* atob throws InvalidCharacterError on a length of 1 modulo 4 after stripping
DecodeThrows(base64) == Len(StripPadding(base64)) % 4 = 1

\* decode(base64): bytes[i] = binaryString.charCodeAt(i)
Decode(base64) == DecodeCharacters(StripPadding(base64))

\* the decoded chunks written one after the other, last chunk first
RECURSIVE ConcatBytesReversed(_)
ConcatBytesReversed(decodedChunks) ==
  IF decodedChunks = <<>> THEN <<>>
  ELSE ConcatBytesReversed(Tail(decodedChunks)) \o Head(decodedChunks)

\* mergedAudio.set(data, offset); offset += data.length, for every decoded chunk
RECURSIVE ConcatBytes(_)
ConcatBytes(decodedChunks) ==
  IF decodedChunks = <<>> THEN <<>>
  ELSE Head(decodedChunks) \o ConcatBytes(Tail(decodedChunks))

\* lines 192-199 and encode(mergedAudio): the merged audio, or the throw of a decode
MergeChunks(chunks) ==
  IF \E i \in 1..Len(chunks) : DecodeThrows(chunks[i])
  THEN [threw |-> TRUE, audio |-> <<>>]
  ELSE [threw |-> FALSE,
        audio |-> Encode(ConcatBytes([i \in 1..Len(chunks) |-> Decode(chunks[i])]))]

ByteStrings == UNION {[1..n -> ByteValues] : n \in 0..MaxChunkBytes}
Base64Chunks == {Encode(b) : b \in ByteStrings}
ChunkLists == UNION {[1..n -> Base64Chunks] : n \in 0..MaxChunks}

AssemblyInit ==
  /\ AppInit
  /\ rtk = NoCall
  /\ asm \in {[phase |-> "call", chunks |-> c] : c \in ChunkLists}
  /\ wr = NoCall

\* the assembly runs
Assemble ==
  /\ asm.phase = "call"
  /\ asm' = [phase |-> "done", chunks |-> asm.chunks, result |-> MergeChunks(asm.chunks)]
  /\ UNCHANGED <<jobs, run, thread, ncalls, now, notification, generatedMedia, rtk, wr>>

AssemblyNext == Assemble

AssemblySpec == AssemblyInit /\ [][AssemblyNext]_vars

\* ---------------------------------------------------------------- withRetry
\* An error message is the sequence of its characters.

\* the messages fn rejects with; the empty one stands for an error without message
ErrorMessages ==
  {<<"4", "2", "9">>,
   <<"x", "4", "2", "9">>,
   <<"q", "u", "o", "t", "a">>,
   <<"Q", "u", "o", "t", "a">>,
   <<"Q", "U", "O", "T", "A">>,
   <<"l", "i", "m", "i", "t">>,
   <<"e", "x", "h", "a", "u", "s", "t", "e", "d">>,
   <<"4", "2">>,
   <<"q", "u", "o", "t">>,
   <<>>,
   <<"5", "0", "0">>,
   <<"4", "2", "x", "9">>}

\* String.prototype.toLowerCase on one character
LowerChar(c) ==
  CASE c = "Q" -> "q" [] c = "U" -> "u" [] c = "O" -> "o" [] c = "T" -> "t"
    [] c = "A" -> "a" [] OTHER -> c

MsgToLowerCase(msg) == [i \in 1..Len(msg) |-> LowerChar(msg[i])]

\* msg.includes(pattern)
Includes(msg, pattern) ==
  \E i \in 1..(Len(msg) - Len(pattern) + 1) : SubSeq(msg, i, i + Len(pattern) - 1) = pattern

\* isQuota without toLowerCase
IsQuotaCaseSensitive(msg) ==
  \/ Includes(msg, <<"4", "2", "9">>)
  \/ Includes(msg, <<"q", "u", "o", "t", "a">>)
  \/ Includes(msg, <<"e", "x", "h", "a", "u", "s", "t", "e", "d">>)
  \/ Includes(msg, <<"l", "i", "m", "i", "t">>)

\* const isQuota = msg.includes("429") || msg.toLowerCase().includes("quota") || ...
IsQuota(msg) ==
  \/ Includes(msg, <<"4", "2", "9">>)
  \/ Includes(MsgToLowerCase(msg), <<"q", "u", "o", "t", "a">>)
  \/ Includes(MsgToLowerCase(msg), <<"e", "x", "h", "a", "u", "s", "t", "e", "d">>)
  \/ Includes(MsgToLowerCase(msg), <<"l", "i", "m", "i", "t">>)

\* the class of the error the catch block has seen
Classify(msg) == IF IsQuota(msg) THEN "transient" ELSE "permanent"

\* the values of the parameter retries
RetriesValues == {1, 2, DefaultRetries}

\* Math.random() * 1000, rounded down
JitterValues == {0, JitterBound - 1}

\* the retry test with the last attempt allowed to wait as well
RetryAllowedOffByOne(attempt, retries) == attempt < retries

\* attempt < retries - 1
RetryAllowed(attempt, retries) == attempt < retries - 1

\* initialDelay * Math.pow(2, attempt) + Math.random() * 1000
Delay(attempt, jitter) == InitialDelay * 2^attempt + jitter

\* the loop test while (attempt < retries): fn() inside the try, or the fn() after the loop
LoopOrTail(attempt, retries) == IF attempt < retries THEN "awaiting" ELSE "tail"

WithRetryInit ==
  /\ AppInit
  /\ rtk = NoCall
  /\ asm = NoCall
  /\ \E retries \in RetriesValues :
       wr = [phase |-> "call", retries |-> retries, attempt |-> 0, calls |-> 0,
             delay |-> 0, lastMsg |-> <<>>, lastClass |-> "none", thrown |-> "none"]

\* withRetry(fn) is called: attempt = 0 and the first fn()
WithRetryCalled ==
  /\ wr.phase = "call"
  /\ wr' = [wr EXCEPT !.phase = LoopOrTail(0, wr.retries), !.calls = 1]
  /\ UNCHANGED <<jobs, run, thread, ncalls, now, notification, generatedMedia, rtk, asm>>

\* return await fn()
FnResolved ==
  /\ wr.phase \in {"awaiting", "tail"}
  /\ wr' = [wr EXCEPT !.phase = "returned"]
  /\ UNCHANGED <<jobs, run, thread, ncalls, now, notification, generatedMedia, rtk, asm>>

\* the catch block: wait, throw GeminiQuotaError, or rethrow; a rejection of the fn()
\* after the loop is the rejection of withRetry
FnRejected(msg, jitter) ==
  /\ wr.phase \in {"awaiting", "tail"}
  /\ LET retry == wr.phase = "awaiting" /\ IsQuota(msg) /\ RetryAllowed(wr.attempt, wr.retries)
     IN wr' = [wr EXCEPT
          !.lastMsg = msg,
          !.lastClass = IF wr.phase = "awaiting" THEN Classify(msg) ELSE wr.lastClass,
          !.delay = IF retry THEN Delay(wr.attempt, jitter) ELSE wr.delay,
          !.phase = IF retry THEN "waiting" ELSE "threw",
          !.thrown = IF retry THEN "none"
                     ELSE IF wr.phase = "awaiting" /\ IsQuota(msg) THEN "GeminiQuotaError"
                     ELSE "err"]
  /\ UNCHANGED <<jobs, run, thread, ncalls, now, notification, generatedMedia, rtk, asm>>

\* the delay has passed: attempt++, continue, and fn() again
DelayElapsed ==
  /\ wr.phase = "waiting"
  /\ wr' = [wr EXCEPT !.attempt = wr.attempt + 1, !.calls = wr.calls + 1,
                      !.phase = LoopOrTail(wr.attempt + 1, wr.retries)]
  /\ UNCHANGED <<jobs, run, thread, ncalls, now, notification, generatedMedia, rtk, asm>>

WithRetryNext ==
  \/ WithRetryCalled
  \/ FnResolved
  \/ \E msg \in ErrorMessages, jitter \in JitterValues : FnRejected(msg, jitter)
  \/ DelayElapsed

WithRetrySpec == WithRetryInit /\ [][WithRetryNext]_vars

\* ------------------------------------------------------------------ claims
NB == "nb1"

\* a and b are entries of the same job
SameJob(a, b) == a.jobId # NoId /\ a.jobId = b.jobId

\* C1: every createPodcastJob call on an existing notebook eventually leads to a job
\* entry in state READY with an audio result, whatever the provider does.
C1_EventuallyReady ==
  [](run[1].pc = "preflight" =>
       <>(HasJob(NB) /\ jobs[NB].state = "READY" /\ jobs[NB].audio.present))

\* C2: no entry of the jobs map ever has state FAILED.
C2_NeverFailed == \A nb \in DOMAIN jobs : jobs[nb].state # "FAILED"

\* C2 witness: a failure has been published, as OPTIMIZING
C2_Witness ==
  /\ HasJob(NB) /\ jobs[NB].state = "OPTIMIZING"
  /\ \E r \in Runs : run[r].pc \in {"backoff", "done"}

\* C3: for one jobId the published mode never moves back towards PRIMARY between two
\* successive states of the jobs map.
C3_ModeMonotone ==
  [][\A nb \in (DOMAIN jobs) \cap (DOMAIN jobs') :
       SameJob(jobs[nb], jobs'[nb]) => ModeRank(jobs'[nb].mode) >= ModeRank(jobs[nb].mode)]_vars

C5_ChunksMonotoneAndBounded ==
  /\ [](\A nb \in DOMAIN jobs : jobs[nb].completedChunks <= jobs[nb].totalChunks)
  /\ [][\A nb \in (DOMAIN jobs) \cap (DOMAIN jobs') :
          SameJob(jobs[nb], jobs'[nb]) =>
            jobs'[nb].completedChunks >= jobs[nb].completedChunks]_vars

\* C6: for one jobId the published progress never decreases between two successive
\* states of the jobs map.
C6_ProgressMonotone ==
  [][\A nb \in (DOMAIN jobs) \cap (DOMAIN jobs') :
       SameJob(jobs[nb], jobs'[nb]) => jobs'[nb].progress >= jobs[nb].progress]_vars

\* C7: once the entry of a jobId is READY, the next state of the jobs map that holds
\* this jobId has the same state, mode, audio.audio, completedChunks and totalChunks.
C7_ReadyIsFrozen ==
  [][\A nb \in (DOMAIN jobs) \cap (DOMAIN jobs') :
       (jobs[nb].state = "READY" /\ SameJob(jobs[nb], jobs'[nb])) =>
         /\ jobs'[nb].state = jobs[nb].state
         /\ jobs'[nb].mode = jobs[nb].mode
         /\ jobs'[nb].audio.audio = jobs[nb].audio.audio
         /\ jobs'[nb].completedChunks = jobs[nb].completedChunks
         /\ jobs'[nb].totalChunks = jobs[nb].totalChunks]_vars

\* C8: for one jobId the lengths of partialAudioBuffers and partialTranscript never
\* decrease between two successive states of the jobs map, the READY write included.
C8_CheckpointNeverShrinks ==
  [][\A nb \in (DOMAIN jobs) \cap (DOMAIN jobs') :
       SameJob(jobs[nb], jobs'[nb]) =>
         /\ Len(jobs'[nb].partialAudioBuffers) >= Len(jobs[nb].partialAudioBuffers)
         /\ Len(jobs'[nb].partialTranscript) >= Len(jobs[nb].partialTranscript)]_vars

\* C9: every job entry's completedChunks is the number of buffers in its
\* partialAudioBuffers.
C9_CompletedIsBufferCount ==
  \A nb \in DOMAIN jobs : jobs[nb].completedChunks = Len(jobs[nb].partialAudioBuffers)

\* C10: an invocation that resumes a job with m completed chunks issues no script or
\* synthesis request for a segment below m, and its first request is the script
\* request for segment m.
C10_ResumeSkipsCommitted ==
  \A r \in Runs :
    (run[r].isResume /\ run[r].firstReq # <<>>) =>
      /\ run[r].firstReq = <<"script", run[r].existingJob.completedChunks>>
      /\ run[r].minSeg >= run[r].existingJob.completedChunks

\* C10 witness: a resumed invocation with a checkpoint of at least one chunk has
\* issued its first request
C10_Witness ==
  \E r \in Runs :
    /\ run[r].isResume
    /\ run[r].existingJob.completedChunks >= 1
    /\ run[r].existingJob.completedChunks = Len(run[r].existingJob.partialAudioBuffers)
    /\ run[r].firstReq # <<>>

\* invocation r is inside its per-segment loop (the synthesis backoff included)
InSegmentLoop(r) ==
  run[r].pc \in {"loop", "await_script", "synth", "await_tts", "tts_failed", "backoff"}

\* C11: for one notebookId no two createPodcastJob invocations are inside their
\* per-segment loop at the same time.
C11_OneLoopPerNotebook ==
  \A r1, r2 \in Runs :
    (r1 # r2 /\ InSegmentLoop(r1) /\ InSegmentLoop(r2)) => run[r1].notebookId # run[r2].notebookId

\* C12: a segment whose synthesis has failed is left behind after finitely many
\* retries: from the backoff the invocation reaches the next loop test with the
\* segment committed.
C12_SynthesisRetryBounded ==
  (run[1].pc = "backoff") ~> (run[1].pc \in {"loop", "finalize"})

\* the entry's partial buffers are the audio of segments 0, 1, 2, ... in order, the
\* transcript holds no line twice, and until the READY write there is one buffer per
\* completed segment
AlignedCheckpoint(job) ==
  /\ \A k \in 1..Len(job.partialAudioBuffers) : job.partialAudioBuffers[k][2] = k - 1
  /\ \A a, b \in 1..Len(job.partialTranscript) :
        a # b => job.partialTranscript[a] # job.partialTranscript[b]
  /\ job.state # "READY" => Len(job.partialAudioBuffers) = job.completedChunks

\* C13: within one job run, whatever failed and was retried, partialAudioBuffers[i] is
\* the audio of segment i, with one entry per completed segment and no audio or
\* transcript line committed twice.
C13_BuffersAlignedWithSegments ==
  \A nb \in DOMAIN jobs : AlignedCheckpoint(jobs[nb])

\* invocation r waits for a response of the provider
AwaitingProvider(r) == run[r].pc \in {"await_outline", "await_script", "await_tts"}

\* C14: an invocation that waits for a provider response stops waiting after a finite
\* time even when the provider never responds.
C14_HungCallTimesOut ==
  [](AwaitingProvider(1) => <>(~AwaitingProvider(1)))

\* how the promise of invocation r has settled: the body is one try block whose catch
\* only calls setJobState, so the promise is never rejected
Outcome(r) == IF run[r].pc \in {"returned", "done"} THEN "fulfilled" ELSE "pending"

\* a TypeError was raised in invocation r by local code: outline.outline.map on a
\* response without an outline list
LocalErrorRaised(r) == run[r].outlineSrc = "malformed" /\ run[r].pc \in {"catch", "done"}

\* C15: when local code of an invocation has raised a programming error, the
\* invocation's promise settles as rejected and the error is not turned into an
\* OPTIMIZING entry.
C15_LocalErrorsPropagate ==
  \A r \in Runs :
    (LocalErrorRaised(r) /\ Outcome(r) # "pending") =>
      /\ Outcome(r) = "rejected"
      /\ jobs[run[r].notebookId].state # "OPTIMIZING"

\* C16: a notebook whose job is READY has got exactly one new generatedMedia entry and
\* the completion notification with its id; a notebook whose job is not READY has got
\* neither.
C16_ReadyAddsMediaAndNotifies ==
  \A nb \in NotebookIds :
    IF HasJob(nb) /\ jobs[nb].state = "READY"
    THEN Len(generatedMedia[nb]) = 1 /\ notification = nb
    ELSE Len(generatedMedia[nb]) = 0 /\ notification # nb

\* score of the source at position i of the finished retrieveTopK call
RtkScore(i) == Score(rtk.sources[i], QueryTerms(rtk.query))

\* C17: when no source scores above 0, retrieveTopK returns the neutral instruction and
\* no source content for a notebook of more than 2 sources, and the content of every
\* source for a notebook of 1 or 2 sources.
C17_NoMatchFallback ==
  (rtk.phase = "done" /\ \A i \in 1..Len(rtk.sources) : RtkScore(i) = 0) =>
    /\ Len(rtk.sources) > 2 => rtk.result = NeutralInstruction
    /\ Len(rtk.sources) \in {1, 2} =>
          /\ rtk.result.kind = "sources"
          /\ {rtk.result.blocks[j].source : j \in 1..Len(rtk.result.blocks)} = 1..Len(rtk.sources)

\* C18: the SOURCE blocks are numbered from 1 and stand in descending score order, ties
\* in notebook order; with 5 sources of which only the third contains a query term,
\* the first block is the third source.
C18_BlocksByScoreThenOrder ==
  (rtk.phase = "done" /\ rtk.result.kind = "sources") =>
    LET b == rtk.result.blocks
    IN /\ \A i \in 1..Len(b) : b[i].number = i
       /\ \A i, j \in 1..Len(b) :
             i < j => \/ RtkScore(b[i].source) > RtkScore(b[j].source)
                      \/ /\ RtkScore(b[i].source) = RtkScore(b[j].source)
                         /\ b[i].source < b[j].source
       /\ (Len(rtk.sources) = 5 /\ \A i \in 1..5 : (RtkScore(i) > 0) <=> (i = 3))
             => b[1].source = 3

\* C18 witness: five sources, only the third contains a query term, and the call has
\* returned its blocks
C18_Witness ==
  /\ rtk.phase = "done"
  /\ Len(rtk.sources) = 5
  /\ \A i \in 1..5 : (RtkScore(i) > 0) <=> (i = 3)
  /\ rtk.result.kind = "sources"
  /\ rtk.result.blocks[1] = [number |-> 1, source |-> 3]

\* number of bytes of the first n chunks of the finished assembly
RECURSIVE DecodedLength(_)
DecodedLength(n) == IF n = 0 THEN 0 ELSE DecodedLength(n - 1) + Len(Decode(asm.chunks[n]))

\* C19: the assembly of any list of base64 chunks completes without throwing, and the
\* decoded result holds the bytes of every chunk at the offset given by the chunks
\* before it, its length being the sum of the chunks' byte lengths.
C19_MergePreservesBytes ==
  asm.phase = "done" =>
    /\ ~asm.result.threw
    /\ LET out == Decode(asm.result.audio)
       IN /\ Len(out) = DecodedLength(Len(asm.chunks))
          /\ \A i \in 1..Len(asm.chunks) :
                \A j \in 1..Len(Decode(asm.chunks[i])) :
                  out[DecodedLength(i - 1) + j] = Decode(asm.chunks[i])[j]

\* C19 witness: three chunks of 1, 2 and 3 bytes with different content, merged
C19_Witness ==
  /\ asm.phase = "done"
  /\ Len(asm.chunks) = 3
  /\ \A i \in 1..3 : Len(Decode(asm.chunks[i])) = i
  /\ Decode(asm.chunks[1]) # <<Decode(asm.chunks[2])[1]>>
  /\ Len(Decode(asm.result.audio)) = 6

\* C20: every failure withRetry has seen is classified transient or permanent, a message
\* with "429" or, in any case, "quota" is transient, fn is invoked again only after a
\* transient failure, and a permanent failure is rethrown at once.
C20_ClassificationDecidesRetry ==
  /\ [](wr.phase \in {"waiting", "threw"} =>
          /\ wr.lastClass \in {"transient", "permanent"}
          /\ (\/ Includes(wr.lastMsg, <<"4", "2", "9">>)
              \/ Includes(MsgToLowerCase(wr.lastMsg), <<"q", "u", "o", "t", "a">>))
               => wr.lastClass = "transient"
          /\ wr.lastClass = "permanent" => (wr.phase = "threw" /\ wr.thrown = "err")
          /\ wr.phase = "waiting" => wr.lastClass = "transient")
  /\ [][(wr.phase # "call" /\ wr'.calls > wr.calls) =>
          (wr.phase = "waiting" /\ wr.lastClass = "transient" /\ wr'.calls = wr.calls + 1)]_vars

\* C20 witness: a transient failure was waited out, fn was invoked a second time, and
\* the permanent failure that followed was rethrown
C20_Witness ==
  /\ wr.phase = "threw"
  /\ wr.thrown = "err"
  /\ wr.lastClass = "permanent"
  /\ wr.calls = 2

\* the step in which the synthesis of the current segment of invocation r fails
SynthesisFails(r) ==
  /\ run[r].pc \in {"await_tts", "tts_failed"}
  /\ run[r].chunkResult # "badtranscript"
  /\ run'[r].pc = "backoff"

UnexpectedSchema(r) == run[r].outlineSrc = "malformed" \/ run[r].chunkResult = "noscript"

\* C22: an invocation that has received a remote outline or script response of
\* unexpected schema is in mode OPTIMIZED, works on the local substitute and has not
\* given up the job.
C22_UnexpectedSchemaDowngrades ==
  \A r \in Runs :
    UnexpectedSchema(r) =>
      /\ run[r].currentMode = "OPTIMIZED"
      /\ run[r].pc \notin {"catch", "tts_failed", "backoff"}
      /\ run[r].pc = "done" => jobs[run[r].notebookId].state = "READY"

\* C23: a createPodcastJob call on a notebook whose existing job is not soft-paused
\* starts a fresh job: a new jobId, completedChunks 0, empty partial buffers and
\* transcript, and the loop starting at segment 0.
C23_FreshJobStartsFromZero ==
  \A r \in Runs :
    (run[r].pc = "preflight" /\ run[r].hasExisting /\ ~run[r].isResume) =>
      LET job == jobs[run[r].notebookId]
      IN /\ job.jobId # run[r].existingJob.jobId
         /\ job.completedChunks = 0
         /\ job.partialAudioBuffers = <<>>
         /\ job.partialTranscript = <<>>
         /\ run[r].i = 0

\* C24: for one jobId the personality of the job entry is the same in two successive
\* states of the jobs map.
C24_PersonalityFixedPerJob ==
  [][\A nb \in (DOMAIN jobs) \cap (DOMAIN jobs') :
       SameJob(jobs[nb], jobs'[nb]) => jobs'[nb].personality = jobs[nb].personality]_vars

\* C25: while an invocation is past its outline, the entry's totalChunks is the number
\* of outline segments; the READY entry has one chapter per outline segment.
C25_TotalChunksIsOutlineLength ==
  \A r \in Runs :
    LET job == jobs[run[r].notebookId]
    IN /\ InSegmentLoop(r) /\ run[r].pc # "loop" => job.totalChunks = run[r].outlineLen
       /\ run[r].pc = "final" => job.totalChunks = run[r].outlineLen
       /\ (run[r].pc = "done" /\ job.state = "READY") =>
             (job.totalChunks = run[r].outlineLen /\ job.audio.chapters = run[r].outlineLen)

\* the artwork generation of invocation r has failed: by rejecting, or by returning null
\* next to a remote outline
ArtworkFailed(r) ==
  \/ run[r].remoteFailed = "artwork"
  \/ run[r].outlineSrc = "remote" /\ run[r].artwork = FALSE

\* C26: a failed artwork generation has not rejected, leaves the invocation with its
\* remote outline and, unless a script call failed later, in mode PRIMARY; the READY
\* entry of such a job has no artworkUrl.
C26_ArtworkIsBestEffort ==
  \A r \in Runs :
    ArtworkFailed(r) =>
      /\ run[r].remoteFailed # "artwork"
      /\ run[r].outlineSrc = "remote"
      /\ run[r].currentMode = "PRIMARY" \/ run[r].remoteFailed = "script"
      /\ (run[r].pc = "done" /\ jobs[run[r].notebookId].state = "READY") =>
            jobs[run[r].notebookId].audio.artworkUrl = FALSE

\* C27: withRetry with retries >= 1 invokes fn at most retries times; the delay it waits
\* after the failure of attempt n is initialDelay * 2^n plus a jitter below one second;
\* a transient failure of the last allowed attempt rejects with GeminiQuotaError, and
\* after a rejection nothing is called any more.
C27_BoundedAttemptsDoublingDelay ==
  /\ [](wr.phase # "none" /\ wr.retries >= 1 =>
          /\ wr.calls <= wr.retries
          /\ wr.phase = "waiting" =>
                /\ wr.delay >= InitialDelay * 2^wr.attempt
                /\ wr.delay < InitialDelay * 2^wr.attempt + JitterBound
          /\ (wr.phase = "threw" /\ wr.lastClass = "transient") =>
                /\ wr.thrown = "GeminiQuotaError"
                /\ wr.calls = wr.retries)
  /\ [][(wr.phase = "awaiting" /\ wr.calls = wr.retries /\ wr'.lastClass = "transient"
           /\ wr'.phase # "returned") =>
          (wr'.phase = "threw" /\ wr'.thrown = "GeminiQuotaError")]_vars
  /\ [][wr.phase = "threw" => wr'.calls = wr.calls]_vars

\* C27 witness: with the default retries, four transient failures were waited out with
\* delays up to 3000 * 2^3 and the fifth rejected with GeminiQuotaError
C27_Witness ==
  /\ wr.phase = "threw"
  /\ wr.retries = DefaultRetries
  /\ wr.calls = DefaultRetries
  /\ wr.thrown = "GeminiQuotaError"
  /\ wr.delay >= InitialDelay * 8

\* the distinct terms of the query of the retrieveTopK call
RtkDistinctTerms == {QueryTerms(rtk.query)[j] : j \in 1..Len(QueryTerms(rtk.query))}

\* C28: the score retrieveTopK gives a source is the number of distinct query terms
\* that occur in its content, so a term repeated in the query counts once.
C28_ScoreCountsDistinctTerms ==
  rtk.phase = "done" =>
    \A i \in 1..Len(rtk.sources) :
      RtkScore(i) = Cardinality({t \in RtkDistinctTerms : t \in rtk.sources[i]})

\* createdAt of the entry invocation r wrote at QUEUED: existingJob?.createdAt || Date.now(),
\* Date.now() being the jobId of a job that is not a resume
QueuedCreatedAt(r) ==
  IF run[r].hasExisting /\ run[r].existingJob.createdAt # NoId
  THEN run[r].existingJob.createdAt
  ELSE run[r].jobId

\* C29: the READY entry an invocation publishes has the jobId, notebookId, personality
\* and createdAt of the entry the same invocation wrote at QUEUED.
C29_ReadyKeepsIdentity ==
  \A r \in Runs :
    LET nb == run[r].notebookId
    IN (run[r].pc = "done" /\ jobs[nb].state = "READY") =>
         /\ jobs[nb].jobId = run[r].jobId
         /\ jobs[nb].notebookId = nb
         /\ jobs[nb].personality = run[r].personality
         /\ jobs[nb].createdAt = QueuedCreatedAt(r)

\* the step in which invocation r requests the script of segment run[r].i, remote or local
ScriptRequested(r) ==
  /\ run[r].pc \in {"loop", "backoff"}
  /\ run'[r].pc \in {"await_script", "synth"}

\* C30: an invocation requests the script of a segment once: the retry that follows a
\* failed synthesis of segment i goes to the synthesis with the script it has and
\* requests no script.
C30_OneScriptRequestPerSegment ==
  [][\A r \in Runs : ScriptRequested(r) => run[r].pc # "backoff"]_vars
====
